---- MODULE Spec2Model ----
(***************************************************************************)
(* State machine of the three Pinia stores of the application: the auth    *)
(* store (useMyAuthStore), the user store (useUserStore) and the theme     *)
(* store (useThemeStore), over the PocketBase client and localStorage.     *)
(* Every async handler is split at its await: a start step that issues the *)
(* remote call and a settle step that runs the continuation or the catch.  *)
(***************************************************************************)
EXTENDS Integers, Sequences, FiniteSets, TLC

(* ---------------------------------------------------------------- bounds *)
MaxInFlight == 1

(* ------------------------------------------------------- value universes *)
\* null / undefined / a missing localStorage key is the empty sequence,
\* a present value v is <<v>>.
Null == <<>>

Some(v) == <<v>>

Tokens == {"tok1", "tok2"}

Ids == {"u1", "u2"}

KnownThemes == {"forest", "winter"}

\* theme preferences a remote record may carry: unset, known, or foreign
RecordThemes == {"", "forest", "winter", "dark"}

\* values that may sit under the localStorage key 'theme' at startup
StoredThemes == {Null, Some(""), Some("forest"), Some("winter"), Some("dark")}

\* message of a failed remote call: absent ("") or supplied by the remote
RemoteMessages == {"", "remote says no"}

NullDerefMessage == "Cannot read properties of null"

\* the raw user record of the users collection; name, email, avatar file and
\* creation date are tied to the id to keep the universe small; the record
\* is untyped, and the one of u2 also carries values under the names of the
\* profile's write-only fields
RecordOf(id, tm) ==
  [id |-> id,
   name |-> IF id = "u1" THEN "Ann" ELSE "Bob",
   email |-> IF id = "u1" THEN "a@x.com" ELSE "b@x.com",
   avatar |-> IF id = "u1" THEN "" ELSE "me.png",
   created |-> IF id = "u1" THEN [year |-> 2024, month |-> 3, day |-> 5]
                            ELSE [year |-> 2023, month |-> 11, day |-> 24],
   themeMode |-> tm,
   password |-> IF id = "u1" THEN "" ELSE "hunter2",
   passwordConfirm |-> IF id = "u1" THEN "" ELSE "hunter2",
   oldPassword |-> IF id = "u1" THEN "" ELSE "hunter1",
   avatarFile |-> IF id = "u1" THEN Null ELSE Some("me.png")]

Records == {RecordOf(id, tm) : id \in Ids, tm \in RecordThemes}

\* what an authentication call resolves with: a token and a record; the
\* record may be missing (a malformed response)
AuthDatas == [token : Tokens, record : {Some(r) : r \in Records} \cup {Null}]

\* outcome of a remote call: resolved with data, or rejected with a message
AuthResponses ==
  {[ok |-> TRUE, data |-> d, message |-> ""] : d \in AuthDatas}
    \cup
  {[ok |-> FALSE, data |-> [token |-> "tok1", record |-> Null], message |-> m] :
      m \in RemoteMessages}

PlainResponses == {[ok |-> TRUE, message |-> ""]} \cup
                  {[ok |-> FALSE, message |-> m] : m \in RemoteMessages}

\* update(id, newData) resolves with the updated record, of which the
\* stored theme preference is kept here
UpdateResponses ==
  {[ok |-> TRUE, message |-> "", themeMode |-> tm] : tm \in RecordThemes}
    \cup {[ok |-> FALSE, message |-> m, themeMode |-> ""] : m \in RemoteMessages}

(* ------------------------------------------------------------ variables *)
VARIABLES
  userData,     \* useUserStore.userData: Null or Some(profile)
  activeTheme,  \* useThemeStore.activeTheme
  lsTheme,      \* localStorage['theme']: Null or Some(string)
  lsAuth,       \* localStorage['pocketbase_auth'] is present
  authToken,    \* pb.authStore.token, "" when cleared
  sessionSet,   \* history: a resolved authentication call has set the
                \* session since the auth store was last cleared
  inflight,     \* per call: how many handlers are suspended on it
  created,      \* the remote holds a record that createAccount created
  stale,        \* history, kept under SpecMarking: per call, how many
                \* suspended handlers predate the last logout
  last          \* what the last step was and how it ended

vars ==
  <<userData, activeTheme, lsTheme, lsAuth, authToken, sessionSet, inflight,
    created, stale, last>>

\* a handler suspended at an await: which handler, at which await
Call(op, phase) == [op |-> op, phase |-> phase]

Calls ==
  {Call("login", "auth"), Call("loginWithGoogle", "auth"),
   Call("createAccount", "create"), Call("createAccount", "login"),
   Call("authRefresh", "refresh"), Call("emailChange", "request"),
   Call("deleteAccount", "delete"), Call("updateUser", "update")}

NoError == [kind |-> "none", message |-> ""]

(* ------------------------------------------------------ errors and catch *)
TypeError(m) == [kind |-> "TypeError", message |-> m]

\* catch (error) { throw new Error(error?.message || fallback) }
NormalizedError(error, fallback) ==
  [kind |-> "Error",
   message |-> IF error.message # "" THEN error.message ELSE fallback]

LoginFallback == "Login failed. Please check your credentials."

GoogleFallback == "Google login failed. Please try again."

CreateFallback == "Account creation failed. Please try again."

EmailFallback == "Email change failed. Please try again."

DeleteFallback == "Account deletion failed. Please try again."

UpdateFallback == "Failed to update user data. Please try again."

(* ------------------------------------------------------- mapAuthDataToUser *)
Pad2(n) == IF n < 10 THEN "0" \o ToString(n) ELSE ToString(n)

\* DD-MM-YYYY of the record's creation date
FormatCreated(d) == Pad2(d.day) \o "-" \o Pad2(d.month) \o "-" \o ToString(d.year)

\* pb.files.getURL(record, record.avatar, { thumb: '100x250' })
GetURL(record) ==
  "/api/files/users/" \o record.id \o "/" \o record.avatar \o "?thumb=100x250"

\* ProfileOf that takes the write-only fields from the record
ProfileOf_SpreadsRecord(token, record, theme) ==
  [id |-> record.id,
   token |-> token,
   name |-> record.name,
   email |-> record.email,
   avatar |-> IF record.avatar # "" THEN GetURL(record) ELSE "",
   created |-> FormatCreated(record.created),
   themeMode |-> IF record.themeMode = "" THEN theme ELSE record.themeMode,
   password |-> record.password,
   passwordConfirm |-> record.passwordConfirm,
   oldPassword |-> record.oldPassword,
   avatarFile |-> record.avatarFile]

\* ProfileOf that copies the record's theme preference as it is
ProfileOf_NoThemeDefault(token, record, theme) ==
  [id |-> record.id,
   token |-> token,
   name |-> record.name,
   email |-> record.email,
   avatar |-> IF record.avatar # "" THEN GetURL(record) ELSE "",
   created |-> FormatCreated(record.created),
   themeMode |-> record.themeMode,
   password |-> "",
   passwordConfirm |-> "",
   oldPassword |-> "",
   avatarFile |-> Null]

\* ProfileOf with the token taken from the record instead of the response
ProfileOf_TokenFromRecord(token, record, theme) ==
  [id |-> record.id,
   token |-> record.id,
   name |-> record.name,
   email |-> record.email,
   avatar |-> IF record.avatar # "" THEN GetURL(record) ELSE "",
   created |-> FormatCreated(record.created),
   themeMode |-> IF record.themeMode = "" THEN theme ELSE record.themeMode,
   password |-> "",
   passwordConfirm |-> "",
   oldPassword |-> "",
   avatarFile |-> Null]

\* the profile built from a token and a present record, with the theme
\* store's active theme standing in for an empty themeMode
ProfileOf(token, record, theme) ==
  [id |-> record.id,
   token |-> token,
   name |-> record.name,
   email |-> record.email,
   avatar |-> IF record.avatar # "" THEN GetURL(record) ELSE "",
   created |-> FormatCreated(record.created),
   themeMode |-> IF record.themeMode = "" THEN theme ELSE record.themeMode,
   password |-> "",
   passwordConfirm |-> "",
   oldPassword |-> "",
   avatarFile |-> Null]

\* result of mapAuthDataToUser: the profile, or the TypeError thrown when
\* the record is missing (record.avatar dereferences it)
mapAuthDataToUser(authData, theme) ==
  IF authData.record = Null
    THEN [err |-> TypeError(NullDerefMessage), value |-> Null]
    ELSE [err |-> NoError,
          value |-> Some(ProfileOf(authData.token, authData.record[1], theme))]

(* ---------------------------------------------------------- useUserStore *)
saveUserData(profile) == Some(profile)

clearUser == Null

\* the keys of a profile in the order mapAuthDataToUser's object literal
\* creates them, which is the order JSON.stringify writes them in
FieldOrder ==
  <<"id", "token", "name", "email", "avatar", "created", "themeMode",
    "password", "passwordConfirm", "oldPassword", "avatarFile">>

\* an object as JSON.stringify sees it: its own keys in insertion order,
\* each with a string, null or a File
Entry(key, kind, value) == [key |-> key, kind |-> kind, value |-> value]

Entries(profile) ==
  [i \in 1..Len(FieldOrder) |->
     LET k == FieldOrder[i]
     IN  IF k = "avatarFile"
           THEN IF profile.avatarFile = Null
                  THEN Entry(k, "null", "") ELSE Entry(k, "file", "")
           ELSE Entry(k, "string", profile[k])]

\* JsonValue that writes a File as null
JsonValue_FileAsNull(e) ==
  IF e.kind = "string" THEN "\"" \o e.value \o "\"" ELSE "null"

\* a string is quoted, null is null, a File has no enumerable own
\* properties and is written as {}
JsonValue(e) ==
  IF e.kind = "string" THEN "\"" \o e.value \o "\""
  ELSE IF e.kind = "null" THEN "null" ELSE "{}"

RECURSIVE JsonMembers(_, _)
JsonMembers(obj, i) ==
  IF i > Len(obj) THEN ""
  ELSE (IF i > 1 THEN "," ELSE "")
         \o "\"" \o obj[i].key \o "\":" \o JsonValue(obj[i])
         \o JsonMembers(obj, i + 1)

\* JSON.stringify of null or of an object
JsonStringify(v) ==
  IF v = Null THEN "null" ELSE "{" \o JsonMembers(v[1], 1) \o "}"

HeldObject(held) == IF held = Null THEN Null ELSE Some(Entries(held[1]))

\* JSON.stringify(data) !== JSON.stringify(userData.value)
userDataHasEdited(data, held) ==
  JsonStringify(Some(data)) # JsonStringify(HeldObject(held))

(* --------------------------------------------------------- useThemeStore *)
DefaultTheme == "forest"

\* StoredOrDefault that never reads the stored value
StoredOrDefault_IgnoresStorage(stored) == DefaultTheme

\* localStorage.getItem('theme') || 'forest'
StoredOrDefault(stored) ==
  IF stored = Null \/ stored = Some("") THEN DefaultTheme ELSE stored[1]

\* the theme setTheme resolves
ResolveTheme(held, stored) ==
  IF held # Null THEN held[1].themeMode ELSE StoredOrDefault(stored)

\* ToggleTheme with an assignment in place of the comparison
ToggleTheme_AlwaysWinter(theme) == "winter"

\* activeTheme.value === 'forest' ? 'winter' : 'forest'
ToggleTheme(theme) == IF theme = "forest" THEN "winter" ELSE "forest"

(* ------------------------------------------------------------- auth store *)
\* IsValid that checks the expiry only
IsValid_ExpiryOnly(token, expired) == ~expired

\* pb.authStore.isValid: a token is held and it has not expired
IsValid(token, expired) == token # "" /\ ~expired

\* LoginBody that drops the held profile when the call fails
LoginBody_ClearsOnFailure(resp, fallback, held, theme) ==
  IF ~resp.ok
    THEN [err |-> NormalizedError(resp, fallback), user |-> clearUser]
    ELSE LET m == mapAuthDataToUser(resp.data, theme)
         IN  IF m.err.kind # "none"
               THEN [err |-> NormalizedError(m.err, fallback), user |-> held]
               ELSE [err |-> NoError, user |-> saveUserData(m.value[1])]

\* the body of login after the await: what it throws (or not) and the
\* profile it leaves in the user store
LoginBody(resp, fallback, held, theme) ==
  IF ~resp.ok
    THEN [err |-> NormalizedError(resp, fallback), user |-> held]
    ELSE LET m == mapAuthDataToUser(resp.data, theme)
         IN  IF m.err.kind # "none"
               THEN [err |-> NormalizedError(m.err, fallback), user |-> held]
               ELSE [err |-> NoError, user |-> saveUserData(m.value[1])]

\* login mutates the record it maps (record.themeMode = activeTheme), so
\* the second mapping in createAccount sees the substituted theme
AfterFirstMap(authData, theme) ==
  IF authData.record = Null THEN authData
  ELSE [authData EXCEPT !.record =
          Some([authData.record[1] EXCEPT !.themeMode =
                  IF @ = "" THEN theme ELSE @])]

\* the inner login settles, then createAccount maps and saves again
CreateBody(resp, held, theme) ==
  LET r == LoginBody(resp, LoginFallback, held, theme)
  IN  IF r.err.kind # "none"
        THEN [err |-> NormalizedError(r.err, CreateFallback), user |-> r.user]
        ELSE LET m == mapAuthDataToUser(AfterFirstMap(resp.data, theme), theme)
             IN  IF m.err.kind # "none"
                   THEN [err |-> NormalizedError(m.err, CreateFallback), user |-> r.user]
                   ELSE [err |-> NoError, user |-> saveUserData(m.value[1])]

\* RefreshBody that leaves the store without the refreshed profile
RefreshBody_SavesNothing(resp, theme) ==
  LET m == mapAuthDataToUser(resp.data, theme)
  IN  IF resp.ok /\ m.err.kind = "none"
        THEN [err |-> NoError, clear |-> FALSE, user |-> clearUser]
        ELSE [err |-> NoError, clear |-> TRUE, user |-> clearUser]

\* RefreshBody whose catch rethrows instead of clearing
RefreshBody_Rethrows(resp, theme) ==
  LET m == mapAuthDataToUser(resp.data, theme)
  IN  IF resp.ok /\ m.err.kind = "none"
        THEN [err |-> NoError, clear |-> FALSE, user |-> saveUserData(m.value[1])]
        ELSE [err |-> NormalizedError(resp, "Refresh failed."), clear |-> FALSE,
              user |-> clearUser]

\* the body of authRefresh after the await: save the refreshed profile, or
\* (catch) clear everything; it never throws
RefreshBody(resp, theme) ==
  LET m == mapAuthDataToUser(resp.data, theme)
  IN  IF resp.ok /\ m.err.kind = "none"
        THEN [err |-> NoError, clear |-> FALSE, user |-> saveUserData(m.value[1])]
        ELSE [err |-> NoError, clear |-> TRUE, user |-> clearUser]

\* UpdateGuard with the dereference outside the try
UpdateGuard_Uncaught(held) ==
  IF held = Null THEN TypeError(NullDerefMessage) ELSE NoError

\* the error updateUser ends with before any await: userData.value!.id is
\* evaluated inside the try, so the null dereference reaches the catch
UpdateGuard(held) ==
  IF held = Null
    THEN NormalizedError(TypeError(NullDerefMessage), UpdateFallback)
    ELSE NoError

\* UpdateBody that copies the returned record into the held profile
UpdateBody_WritesBack(resp, held) ==
  IF resp.ok
    THEN [err |-> NoError, value |-> TRUE,
          user |-> IF held = Null THEN held
                   ELSE Some([held[1] EXCEPT !.themeMode = resp.themeMode])]
    ELSE [err |-> NormalizedError(resp, UpdateFallback), value |-> FALSE,
          user |-> held]

\* the body of updateUser after the await: return true, or rethrow from
\* the catch; the held profile is not assigned
UpdateBody(resp, held) ==
  IF resp.ok
    THEN [err |-> NoError, value |-> TRUE, user |-> held]
    ELSE [err |-> NormalizedError(resp, UpdateFallback), value |-> FALSE,
          user |-> held]

\* likewise userStore.userData.id in deleteAccount
DeleteGuard(held) ==
  IF held = Null
    THEN NormalizedError(TypeError(NullDerefMessage), DeleteFallback)
    ELSE NoError

\* DeleteBody that logs out once the record is deleted
DeleteBody_LogsOut(resp) ==
  IF resp.ok
    THEN [err |-> NoError, clear |-> TRUE]
    ELSE [err |-> NormalizedError(resp, DeleteFallback), clear |-> FALSE]

\* the body of deleteAccount after the await: nothing on success, rethrow
\* from the catch on failure; no store is cleared either way
DeleteBody(resp) ==
  IF resp.ok
    THEN [err |-> NoError, clear |-> FALSE]
    ELSE [err |-> NormalizedError(resp, DeleteFallback), clear |-> FALSE]

(* ------------------------------------------------------------ bookkeeping *)
RECURSIVE SumOver(_, _)
SumOver(f, S) ==
  IF S = {} THEN 0
  ELSE LET c == CHOOSE x \in S : TRUE IN f[c] + SumOver(f, S \ {c})

\* number of handlers suspended at an await
InFlight == SumOver(inflight, Calls)

Pending(c) == inflight[c] > 0

\* how an awaited call ended: resolved, resolved without a record
\* (malformed), or rejected; with the remote's message, the returned token
\* and the id and stored theme preference of the returned record
NoOutcome ==
  [result |-> "none", remote |-> "", token |-> "", recId |-> "", recTheme |-> Null]

AuthOutcome(resp) ==
  [result |-> IF ~resp.ok THEN "rejected"
              ELSE IF resp.data.record = Null THEN "malformed" ELSE "resolved",
   remote |-> resp.message,
   token |-> IF resp.ok THEN resp.data.token ELSE "",
   recId |-> IF resp.ok /\ resp.data.record # Null
               THEN resp.data.record[1].id ELSE "",
   recTheme |-> IF resp.ok /\ resp.data.record # Null
                  THEN Some(resp.data.record[1].themeMode) ELSE Null]

PlainOutcome(resp) ==
  [result |-> IF resp.ok THEN "resolved" ELSE "rejected",
   remote |-> resp.message, token |-> "", recId |-> "", recTheme |-> Null]

\* the record of a step: the handler, where in it the step is, the error it
\* raised to its caller, the remote call it issued, the outcome of the call
\* it awaited, whether a profile was held before the step, the active
\* themes before the latest consecutive changeTheme calls, the argument
\* and answer of userDataHasEdited, and whether the handler that resumed in
\* the step had been suspended since before the last logout
Step(op, phase, err, called, out) ==
  [op |-> op, phase |-> phase, raised |-> err.kind, message |-> err.message,
   called |-> called, result |-> out.result, remote |-> out.remote,
   token |-> out.token, recId |-> out.recId, recTheme |-> out.recTheme,
   held |-> userData # Null, trail |-> <<>>, arg |-> <<>>, answer |-> FALSE,
   stale |-> FALSE]

Sync(op, err) == last' = Step(op, "sync", err, "none", NoOutcome)

Suspend(op, phase, called) ==
  /\ InFlight < MaxInFlight
  /\ inflight' = [inflight EXCEPT ![Call(op, phase)] = @ + 1]
  /\ last' = Step(op, "start", NoError, called, NoOutcome)

\* one of the handlers suspended on call c resumes: one that predates the
\* last logout (old) or a later one
Leave(c, old) ==
  /\ IF old THEN stale[c] > 0 ELSE inflight[c] > stale[c]
  /\ stale' = [stale EXCEPT ![c] = IF old THEN @ - 1 ELSE @]

Resume(c, err, out) ==
  /\ inflight' = [inflight EXCEPT ![c] = @ - 1]
  /\ \E old \in BOOLEAN :
       /\ Leave(c, old)
       /\ last' = [Step(c.op, "settle", err, "none", out) EXCEPT !.stale = old]

Init ==
  /\ userData = Null
  /\ activeTheme = DefaultTheme
  /\ lsTheme \in StoredThemes
  /\ authToken \in {""} \cup Tokens
  /\ lsAuth = (authToken # "")
  /\ sessionSet = FALSE
  /\ inflight = [c \in Calls |-> 0]
  /\ created = FALSE
  /\ stale = [c \in Calls |-> 0]
  /\ last = [op |-> "init", phase |-> "init", raised |-> "none", message |-> "",
             called |-> "none", result |-> "none", remote |-> "", token |-> "",
             recId |-> "", recTheme |-> Null, held |-> FALSE, trail |-> <<>>,
             arg |-> <<>>, answer |-> FALSE, stale |-> FALSE]

\* the client stores the session of a resolved authentication call
\* (authStore.save) before the handler resumes
SessionAfter(resp) ==
  /\ authToken' = IF resp.ok THEN resp.data.token ELSE authToken
  /\ lsAuth' = IF resp.ok THEN TRUE ELSE lsAuth
  /\ sessionSet' = IF resp.ok THEN TRUE ELSE sessionSet

\* ClearSession without the removeItem
ClearSession_KeepsStorageKey ==
  /\ authToken' = ""
  /\ lsAuth' = lsAuth
  /\ sessionSet' = FALSE
  /\ userData' = clearUser

\* ClearSession without the clearUser
ClearSession_KeepsProfile ==
  /\ authToken' = ""
  /\ lsAuth' = FALSE
  /\ sessionSet' = FALSE
  /\ userData' = userData

\* authStore.clear(); removeItem('pocketbase_auth'); clearUser()
ClearSession ==
  /\ authToken' = ""
  /\ lsAuth' = FALSE
  /\ sessionSet' = FALSE
  /\ userData' = clearUser

(* ------------------------------------------------------------------ login *)
login ==
  /\ Suspend("login", "auth", "authWithPassword")
  /\ UNCHANGED <<userData, activeTheme, lsTheme, lsAuth, authToken,
                 sessionSet, created, stale>>

loginSettle ==
  /\ Pending(Call("login", "auth"))
  /\ \E resp \in AuthResponses :
       LET r == LoginBody(resp, LoginFallback, userData, activeTheme)
       IN  /\ SessionAfter(resp)
           /\ userData' = r.user
           /\ Resume(Call("login", "auth"), r.err, AuthOutcome(resp))
  /\ UNCHANGED <<activeTheme, lsTheme, created>>

(* -------------------------------------------------------- loginWithGoogle *)
loginWithGoogle ==
  /\ Suspend("loginWithGoogle", "auth", "authWithOAuth2")
  /\ UNCHANGED <<userData, activeTheme, lsTheme, lsAuth, authToken,
                 sessionSet, created, stale>>

loginWithGoogleSettle ==
  /\ Pending(Call("loginWithGoogle", "auth"))
  /\ \E resp \in AuthResponses :
       LET r == LoginBody(resp, GoogleFallback, userData, activeTheme)
       IN  /\ SessionAfter(resp)
           /\ userData' = r.user
           /\ Resume(Call("loginWithGoogle", "auth"), r.err, AuthOutcome(resp))
  /\ UNCHANGED <<activeTheme, lsTheme, created>>

(* ---------------------------------------------------------- createAccount *)
createAccount ==
  /\ Suspend("createAccount", "create", "create")
  /\ UNCHANGED <<userData, activeTheme, lsTheme, lsAuth, authToken,
                 sessionSet, created, stale>>

\* AfterCreate that goes on to login whatever create did
AfterCreate_AlwaysLogsIn(resp) ==
  [login |-> TRUE, err |-> NoError]

\* what createAccount does once create(data) settles: invoke login when it
\* resolved, rethrow from the catch when it was rejected
AfterCreate(resp) ==
  IF resp.ok
    THEN [login |-> TRUE, err |-> NoError]
    ELSE [login |-> FALSE, err |-> NormalizedError(resp, CreateFallback)]

\* create(data) settles: the remote holds a new record when it resolved;
\* the invoked login suspends on authWithPassword
createAccountCreated ==
  /\ Pending(Call("createAccount", "create"))
  /\ \E resp \in PlainResponses :
       LET r == AfterCreate(resp)
       IN  /\ created' = (created \/ resp.ok)
           /\ IF r.login
                THEN /\ inflight' = [inflight EXCEPT
                                       ![Call("createAccount", "create")] = @ - 1,
                                       ![Call("createAccount", "login")] = @ + 1]
                     /\ \E old \in BOOLEAN :
                          /\ IF old THEN stale[Call("createAccount", "create")] > 0
                             ELSE inflight[Call("createAccount", "create")]
                                    > stale[Call("createAccount", "create")]
                          /\ stale' = [stale EXCEPT
                                ![Call("createAccount", "create")] =
                                    IF old THEN @ - 1 ELSE @,
                                ![Call("createAccount", "login")] =
                                    IF old THEN @ + 1 ELSE @]
                          /\ last' = [Step("createAccount", "created", NoError,
                                           "authWithPassword", PlainOutcome(resp))
                                        EXCEPT !.stale = old]
                ELSE Resume(Call("createAccount", "create"), r.err,
                            PlainOutcome(resp))
  /\ UNCHANGED <<userData, activeTheme, lsTheme, lsAuth, authToken, sessionSet>>

createAccountLoggedIn ==
  /\ Pending(Call("createAccount", "login"))
  /\ \E resp \in AuthResponses :
       LET r == CreateBody(resp, userData, activeTheme)
       IN  /\ SessionAfter(resp)
           /\ userData' = r.user
           /\ Resume(Call("createAccount", "login"), r.err, AuthOutcome(resp))
  /\ UNCHANGED <<activeTheme, lsTheme, created>>

(* ----------------------------------------------------------------- logout *)
\* logout that empties localStorage instead of removing one key
logout_ClearsStorage ==
  /\ ClearSession
  /\ lsTheme' = Null
  /\ Sync("logout", NoError)
  /\ UNCHANGED <<activeTheme, inflight, created, stale>>

logout ==
  /\ ClearSession
  /\ Sync("logout", NoError)
  /\ UNCHANGED <<activeTheme, lsTheme, inflight, created, stale>>

\* logout, with the history of which suspended handlers it leaves behind:
\* every handler in flight at this step predates the logout
logoutMarking ==
  /\ ClearSession
  /\ stale' = inflight
  /\ Sync("logout", NoError)
  /\ UNCHANGED <<activeTheme, lsTheme, inflight, created>>

(* ------------------------------------------------------------ authRefresh *)
authRefresh ==
  /\ \E expired \in BOOLEAN :
       IF ~IsValid(authToken, expired)
         THEN /\ ClearSession
              /\ Sync("authRefresh", NoError)
              /\ UNCHANGED inflight
         ELSE /\ Suspend("authRefresh", "refresh", "authRefresh")
              /\ UNCHANGED <<userData, lsAuth, authToken, sessionSet>>
  /\ UNCHANGED <<activeTheme, lsTheme, created, stale>>

authRefreshSettle ==
  /\ Pending(Call("authRefresh", "refresh"))
  /\ \E resp \in AuthResponses :
       LET r == RefreshBody(resp, activeTheme)
       IN  /\ IF r.clear
                THEN ClearSession
                ELSE SessionAfter(resp) /\ userData' = r.user
           /\ Resume(Call("authRefresh", "refresh"), r.err, AuthOutcome(resp))
  /\ UNCHANGED <<activeTheme, lsTheme, created>>

(* ------------------------------------------------------------ emailChange *)
emailChange ==
  /\ Suspend("emailChange", "request", "requestEmailChange")
  /\ UNCHANGED <<userData, activeTheme, lsTheme, lsAuth, authToken,
                 sessionSet, created, stale>>

emailChangeSettle ==
  /\ Pending(Call("emailChange", "request"))
  /\ \E resp \in PlainResponses :
       Resume(Call("emailChange", "request"),
              IF resp.ok THEN NoError ELSE NormalizedError(resp, EmailFallback),
              PlainOutcome(resp))
  /\ UNCHANGED <<userData, activeTheme, lsTheme, lsAuth, authToken,
                 sessionSet, created>>

(* ---------------------------------------------------------- deleteAccount *)
deleteAccount ==
  /\ IF DeleteGuard(userData).kind # "none"
       THEN Sync("deleteAccount", DeleteGuard(userData)) /\ UNCHANGED inflight
       ELSE Suspend("deleteAccount", "delete", "delete")
  /\ UNCHANGED <<userData, activeTheme, lsTheme, lsAuth, authToken,
                 sessionSet, created, stale>>

deleteAccountSettle ==
  /\ Pending(Call("deleteAccount", "delete"))
  /\ \E resp \in PlainResponses :
       LET r == DeleteBody(resp)
       IN  /\ IF r.clear
                THEN ClearSession
                ELSE UNCHANGED <<userData, lsAuth, authToken, sessionSet>>
           /\ Resume(Call("deleteAccount", "delete"), r.err, PlainOutcome(resp))
  /\ UNCHANGED <<activeTheme, lsTheme, created>>

(* ------------------------------------------------------------- updateUser *)
updateUser ==
  /\ IF UpdateGuard(userData).kind # "none"
       THEN Sync("updateUser", UpdateGuard(userData)) /\ UNCHANGED inflight
       ELSE Suspend("updateUser", "update", "update")
  /\ UNCHANGED <<userData, activeTheme, lsTheme, lsAuth, authToken,
                 sessionSet, created, stale>>

updateUserSettle ==
  /\ Pending(Call("updateUser", "update"))
  /\ \E resp \in UpdateResponses :
       LET r == UpdateBody(resp, userData)
       IN  /\ userData' = r.user
           /\ inflight' = [inflight EXCEPT ![Call("updateUser", "update")] = @ - 1]
           /\ \E old \in BOOLEAN :
                /\ Leave(Call("updateUser", "update"), old)
                /\ last' = [Step("updateUser", "settle", r.err, "none",
                                 PlainOutcome(resp))
                              EXCEPT !.answer = r.value, !.stale = old]
  /\ UNCHANGED <<activeTheme, lsTheme, lsAuth, authToken, sessionSet, created>>

(* ------------------------------------------------------ userDataHasEdited *)
\* the form data a caller may pass: a copy of the held profile (of a fixed
\* profile when none is held), the copy with one field edited (a suffix
\* typed into a text field, a File picked for avatarFile), and the copy
\* built with its first two keys in the other order
FormProfile(held) ==
  IF held = Null THEN ProfileOf("tok1", RecordOf("u1", "forest"), DefaultTheme)
  ELSE held[1]

Edited(obj, i) ==
  [obj EXCEPT ![i] = IF @.kind = "string" THEN Entry(@.key, "string", @.value \o "x")
                     ELSE Entry(@.key, "file", "")]

Reordered(obj) == [obj EXCEPT ![1] = obj[2], ![2] = obj[1]]

Candidates(held) ==
  LET copy == Entries(FormProfile(held))
  IN  {copy, Reordered(copy)} \cup {Edited(copy, i) : i \in 1..Len(copy)}

hasEdited ==
  /\ \E data \in Candidates(userData) :
       last' = [Step("userDataHasEdited", "sync", NoError, "none", NoOutcome)
                  EXCEPT !.arg = data,
                         !.answer = userDataHasEdited(data, userData)]
  /\ UNCHANGED <<userData, activeTheme, lsTheme, lsAuth, authToken,
                 sessionSet, inflight, created, stale>>

(* ------------------------------------------------------------ theme store *)
setTheme ==
  /\ activeTheme' = ResolveTheme(userData, lsTheme)
  /\ lsTheme' = Some(activeTheme')
  /\ Sync("setTheme", NoError)
  /\ UNCHANGED <<userData, lsAuth, authToken, sessionSet, inflight, created,
                 stale>>

\* the active themes before the latest (at most two) consecutive toggles
TrailAfter(step, theme) ==
  IF step.op = "changeTheme"
    THEN <<step.trail[Len(step.trail)], theme>>
    ELSE <<theme>>

\* changeTheme that also writes the new theme into the held profile
changeTheme_SyncsProfile ==
  /\ activeTheme' = ToggleTheme(activeTheme)
  /\ userData' = IF userData = Null THEN userData
                 ELSE Some([userData[1] EXCEPT !.themeMode = activeTheme'])
  /\ last' = [Step("changeTheme", "sync", NoError, "none", NoOutcome)
                EXCEPT !.trail = TrailAfter(last, activeTheme)]
  /\ UNCHANGED <<lsTheme, lsAuth, authToken, sessionSet, inflight, created,
                 stale>>

changeTheme ==
  /\ activeTheme' = ToggleTheme(activeTheme)
  /\ last' = [Step("changeTheme", "sync", NoError, "none", NoOutcome)
                EXCEPT !.trail = TrailAfter(last, activeTheme)]
  /\ UNCHANGED <<userData, lsTheme, lsAuth, authToken, sessionSet, inflight,
                 created, stale>>

(* ---------------------------------------------------------- specification *)
Next ==
  \/ login
  \/ loginSettle
  \/ loginWithGoogle
  \/ loginWithGoogleSettle
  \/ createAccount
  \/ createAccountCreated
  \/ createAccountLoggedIn
  \/ logout
  \/ authRefresh
  \/ authRefreshSettle
  \/ emailChange
  \/ emailChangeSettle
  \/ deleteAccount
  \/ deleteAccountSettle
  \/ updateUser
  \/ updateUserSettle
  \/ setTheme
  \/ changeTheme

Spec == Init /\ [][Next]_vars

\* the same handlers, with logout recording the handlers it overtakes
NextMarking ==
  \/ login
  \/ loginSettle
  \/ loginWithGoogle
  \/ loginWithGoogleSettle
  \/ createAccount
  \/ createAccountCreated
  \/ createAccountLoggedIn
  \/ logoutMarking
  \/ authRefresh
  \/ authRefreshSettle
  \/ emailChange
  \/ emailChangeSettle
  \/ deleteAccount
  \/ deleteAccountSettle
  \/ updateUser
  \/ updateUserSettle
  \/ setTheme
  \/ changeTheme

SpecMarking == Init /\ [][NextMarking]_vars

(* ------------------------------------------- userDataHasEdited on its own *)
\* the profiles the handlers can leave in the user store
HeldProfiles ==
  {ProfileOf(t, r, th) : t \in Tokens, r \in Records, th \in KnownThemes}

\* any held profile (or none), with nothing in flight
InitEdited ==
  /\ userData \in {Null} \cup {Some(p) : p \in HeldProfiles}
  /\ activeTheme = DefaultTheme
  /\ lsTheme = Null
  /\ authToken = IF userData = Null THEN "" ELSE userData[1].token
  /\ lsAuth = (authToken # "")
  /\ sessionSet = (userData # Null)
  /\ inflight = [c \in Calls |-> 0]
  /\ created = FALSE
  /\ stale = [c \in Calls |-> 0]
  /\ last = [op |-> "init", phase |-> "init", raised |-> "none", message |-> "",
             called |-> "none", result |-> "none", remote |-> "", token |-> "",
             recId |-> "", recTheme |-> Null, held |-> FALSE, trail |-> <<>>,
             arg |-> <<>>, answer |-> FALSE, stale |-> FALSE]

NextEdited == hasEdited

SpecEdited == InitEdited /\ [][NextEdited]_vars

(* ----------------------------------------------------------------- claims *)
\* C1: a login whose remote authenticate-with-password succeeded ends
\* Authenticated: a profile is held and its token is the session token the
\* remote call returned.
C1_LoginAuthenticates ==
  (last.op = "login" /\ last.phase = "settle" /\ last.raised = "none")
    => /\ userData # Null
       /\ userData[1].token = last.token

C1_Witness ==
  /\ last.op = "login" /\ last.phase = "settle" /\ last.result = "resolved"
  /\ ~last.held
  /\ userData # Null /\ userData[1].token = "tok2"

C3_RefreshInvalidClears ==
  [][(/\ last'.op = "authRefresh"
      /\ last'.phase \in {"sync", "start"}
      /\ (authToken = "" \/ last'.phase = "sync"))
       => /\ userData' = Null
          /\ authToken' = ""
          /\ ~lsAuth'
          /\ last'.called = "none"
          /\ last'.raised = "none"
          /\ inflight' = inflight]_vars

C3_Witness ==
  /\ last.op = "authRefresh" /\ last.phase = "sync" /\ last.held
  /\ userData = Null /\ authToken = "" /\ ~lsAuth

\* C4: authRefresh never raises; when the remote refresh is rejected or its
\* result cannot be normalized, the held profile is absent, the session
\* marker is cleared and the durable session key is removed.
C4_RefreshFailClosed ==
  last.op = "authRefresh"
    => /\ last.raised = "none"
       /\ (last.phase = "settle" /\ last.result \in {"rejected", "malformed"})
            => (userData = Null /\ authToken = "" /\ ~lsAuth)

C4_Witness ==
  /\ last.op = "authRefresh" /\ last.phase = "settle"
  /\ last.result = "rejected" /\ last.held
  /\ userData = Null

\* C5: when the remote call of login or loginWithGoogle is rejected, the
\* handler raises the normalized Error (the remote message, or the handler's
\* fallback when there is none) and the held profile is left as it was.
C5_FailedLoginKeepsProfile ==
  [][(/\ last'.op \in {"login", "loginWithGoogle"}
      /\ last'.phase = "settle"
      /\ last'.result = "rejected")
       => /\ userData' = userData
          /\ last'.raised = "Error"
          /\ last'.message =
               IF last'.remote # "" THEN last'.remote
               ELSE IF last'.op = "login" THEN LoginFallback ELSE GoogleFallback]_vars

C5_Witness ==
  /\ last.op = "loginWithGoogle" /\ last.phase = "settle"
  /\ last.result = "rejected" /\ last.raised = "Error"
  /\ last.message = GoogleFallback
  /\ last.held /\ userData # Null

\* C6: logout never fails and ends Unauthenticated: session marker cleared,
\* durable session key removed, held profile absent.
C6_LogoutClears ==
  last.op = "logout"
    => /\ last.raised = "none"
       /\ userData = Null
       /\ authToken = ""
       /\ ~lsAuth

C6_Witness ==
  /\ last.op = "logout" /\ last.held
  /\ userData = Null /\ authToken = "" /\ ~lsAuth

\* C7: in every reachable state the active theme is one of the two known
\* theme names.
C7_ThemeAlwaysKnown == activeTheme \in KnownThemes

\* C8: right after changeTheme the value under the durable 'theme' key is
\* the new active theme.
C8_TogglePersists ==
  last.op = "changeTheme" => lsTheme = Some(activeTheme)

\* C9: on the two known themes changeTheme yields the other name, and two
\* consecutive calls restore the original active theme.
C9_ToggleInvolution ==
  last.op = "changeTheme"
    => LET n == Len(last.trail)
       IN  /\ last.trail[n] \in KnownThemes
                => activeTheme \in KnownThemes \ {last.trail[n]}
           /\ (n = 2 /\ last.trail[1] \in KnownThemes)
                => activeTheme = last.trail[1]

C9_Witness ==
  /\ last.op = "changeTheme" /\ Len(last.trail) = 2
  /\ last.trail = <<"winter", "forest">>
  /\ activeTheme = "winter"

\* C10 as stated: setTheme takes the held profile's themeMode, else the
\* value under the durable 'theme' key if the key exists, else 'forest',
\* and stores the result under the key.
C10_SetThemeTakesAnyStoredValue ==
  [][last'.op = "setTheme"
       => /\ activeTheme' =
               IF userData # Null THEN userData[1].themeMode
               ELSE IF lsTheme # Null THEN lsTheme[1] ELSE "forest"
          /\ lsTheme' = Some(activeTheme')]_vars

\* C10 amended: setTheme takes the held profile's themeMode, else the value
\* under the durable 'theme' key if the key exists and is not the empty
\* string, else 'forest', and stores the result under the key.
C10_SetThemeResolves ==
  [][last'.op = "setTheme"
       => /\ activeTheme' =
               IF userData # Null THEN userData[1].themeMode
               ELSE IF lsTheme # Null /\ lsTheme # Some("") THEN lsTheme[1]
               ELSE "forest"
          /\ lsTheme' = Some(activeTheme')]_vars

C10_Witness ==
  /\ last.op = "setTheme" /\ ~last.held
  /\ activeTheme = "forest" /\ lsTheme = Some("forest")

\* the handlers that end by saving a normalized profile
AuthOps == {"login", "loginWithGoogle", "createAccount", "authRefresh"}

\* C11: when an authentication result whose record has an empty theme
\* preference is normalized and saved, the saved profile's themeMode is the
\* theme store's active theme at that moment, and it is not empty.
C11_EmptyThemeTakesActiveTheme ==
  [][(/\ last'.op \in AuthOps
      /\ last'.phase = "settle"
      /\ last'.result = "resolved"
      /\ last'.recTheme = Some(""))
       => /\ userData' # Null
          /\ userData'[1].themeMode = activeTheme
          /\ userData'[1].themeMode # ""]_vars

C11_Witness ==
  /\ last.op = "loginWithGoogle" /\ last.phase = "settle"
  /\ last.result = "resolved" /\ last.recTheme = Some("")
  /\ activeTheme = "winter"
  /\ userData # Null /\ userData[1].themeMode = "winter"

\* the entry of object obj under key k
FieldOf(obj, k) == CHOOSE e \in {obj[i] : i \in 1..Len(obj)} : e.key = k

Keys(obj) == {obj[i].key : i \in 1..Len(obj)}

\* the keys on which the object and the profile carry different values
DifferingFields(obj, profile) ==
  {k \in Keys(obj) : FieldOf(obj, k) # FieldOf(Entries(profile), k)}

\* C12 as stated: with a profile held, userDataHasEdited answers false for
\* a candidate equal to it field for field, and true for a candidate that
\* differs from it in a single field.
C12_EditedIffSomeFieldDiffers ==
  (last.op = "userDataHasEdited" /\ last.held)
    => LET d == DifferingFields(last.arg, userData[1])
       IN  /\ d = {} => ~last.answer
           /\ Cardinality(d) = 1 => last.answer

\* C12 amended: with a profile held, userDataHasEdited answers false for a
\* candidate equal to it field for field whose fields are in the held
\* profile's order, and true for a candidate that differs from it in a
\* single field.
C12_EditedIffSerializationDiffers ==
  (last.op = "userDataHasEdited" /\ last.held)
    => LET d == DifferingFields(last.arg, userData[1])
       IN  /\ last.arg = Entries(userData[1]) => ~last.answer
           /\ Cardinality(d) = 1 => last.answer

C12_Witness ==
  /\ last.op = "userDataHasEdited" /\ last.held
  /\ DifferingFields(last.arg, userData[1]) = {"password"}
  /\ last.answer

\* C13: updateUser never changes the held profile: when the remote update
\* resolves it returns true and the profile is the one held before, when it
\* is rejected it raises the normalized Error (remote message or fallback)
\* and the profile is likewise the one held before.
C13_UpdateKeepsProfile ==
  [][last'.op = "updateUser"
       => /\ userData' = userData
          /\ (last'.phase = "settle" /\ last'.result = "resolved")
               => (last'.raised = "none" /\ last'.answer)
          /\ (last'.phase = "settle" /\ last'.result = "rejected")
               => /\ last'.raised = "Error"
                  /\ last'.message =
                       IF last'.remote # "" THEN last'.remote ELSE UpdateFallback]_vars

C13_Witness ==
  /\ last.op = "updateUser" /\ last.phase = "settle"
  /\ last.result = "resolved" /\ last.answer
  /\ last.held /\ userData # Null

C15_CreateThenLogin ==
  [][LET cc == Call("createAccount", "create")
         cl == Call("createAccount", "login")
     IN  /\ (last'.op = "createAccount" /\ last'.called = "authWithPassword")
              => /\ inflight'[cc] = inflight[cc] - 1
                 /\ last'.result = "resolved"
                 /\ created'
         /\ (last'.op = "createAccount" /\ inflight'[cc] = inflight[cc] - 1
               /\ last'.result = "rejected")
              => /\ last'.called = "none"
                 /\ inflight'[cl] = inflight[cl]
                 /\ created' = created
                 /\ userData' = userData
                 /\ last'.raised = "Error"
                 /\ last'.message =
                      IF last'.remote # "" THEN last'.remote ELSE CreateFallback
         /\ (last'.op = "createAccount" /\ inflight'[cl] = inflight[cl] - 1
               /\ last'.result = "rejected")
              => /\ last'.raised = "Error"
                 /\ userData' = userData
                 /\ created
                 /\ created' = created]_vars

C15_Witness ==
  /\ last.op = "createAccount" /\ last.phase = "settle"
  /\ last.result = "rejected" /\ last.raised = "Error"
  /\ last.message = LoginFallback
  /\ created /\ userData = Null

\* C16: every profile the handlers leave in the user store has its
\* write-only fields empty: the three passwords are the empty string and
\* avatarFile is null, whatever the remote record carried.
C16_TransientFieldsEmpty ==
  userData # Null
    => /\ userData[1].password = ""
       /\ userData[1].passwordConfirm = ""
       /\ userData[1].oldPassword = ""
       /\ userData[1].avatarFile = Null

C16_Witness ==
  /\ last.op \in AuthOps /\ last.phase = "settle" /\ last.result = "resolved"
  /\ last.recId = "u2"
  /\ userData # Null /\ userData[1].id = "u2" /\ userData[1].password = ""

\* C17: an authRefresh whose remote refresh resolved with a record ends
\* Authenticated with the profile normalized from that result: its token
\* and id are the returned ones, its name is the returned record's, its
\* theme is the record's (the active theme when that is empty), whatever
\* was held before.
C17_RefreshReplacesProfile ==
  (last.op = "authRefresh" /\ last.phase = "settle" /\ last.result = "resolved")
    => /\ last.raised = "none"
       /\ userData # Null
       /\ userData[1].token = last.token
       /\ userData[1].id = last.recId
       /\ userData[1].name = RecordOf(last.recId, "").name
       /\ userData[1].themeMode =
            IF last.recTheme = Some("") THEN activeTheme ELSE last.recTheme[1]

C17_Witness ==
  /\ last.op = "authRefresh" /\ last.phase = "settle"
  /\ last.result = "resolved" /\ last.held
  /\ last.token = "tok2" /\ last.recId = "u2"
  /\ userData # Null /\ userData[1].token = "tok2" /\ userData[1].id = "u2"

\* C18: no step of a handler of the auth store or of the user store (with
\* the saveUserData and clearUser calls it makes) changes the active theme
\* or the durable 'theme' key; only setTheme and changeTheme steps do.
C18_OnlyThemeStoreChangesTheme ==
  [][last'.op \notin {"setTheme", "changeTheme"}
       => UNCHANGED <<activeTheme, lsTheme>>]_vars

C18_Witness ==
  /\ last.op = "login" /\ last.phase = "settle" /\ last.result = "resolved"
  /\ userData # Null /\ userData[1].themeMode = "winter"
  /\ activeTheme = "forest" /\ lsTheme = Some("forest")

\* C19: changeTheme issues no remote call and leaves the held profile, its
\* themeMode included, and the session as they were.
C19_ToggleTouchesThemeOnly ==
  [][last'.op = "changeTheme"
       => /\ last'.called = "none"
          /\ last'.raised = "none"
          /\ UNCHANGED <<userData, inflight, authToken, lsAuth, created>>]_vars

C19_Witness ==
  /\ last.op = "changeTheme" /\ last.held
  /\ userData # Null /\ userData[1].themeMode = "forest"
  /\ activeTheme = "winter"

\* C20: once logout has run, a profile becomes held again only through a
\* handler that was started after that logout; a handler already suspended
\* on its remote call when logout ran does not bring a profile back.
C20_LogoutOutlivesPendingCalls ==
  [][(userData = Null /\ userData' # Null) => ~last'.stale]_vars

====
